---- MODULE Spec2Model ----
(***************************************************************************)
(* Model of skills/gog-calendar/scripts/fetch_events.py.                   *)
(*                                                                         *)
(* A Python string is modelled as a sequence of atoms: ":" is the colon    *)
(* character and every other atom is a non-empty run of characters that    *)
(* holds no colon.  No two atoms used below concatenate to a third, so     *)
(* equality of atom sequences is equality of the strings they stand for.   *)
(* A command line is a sequence of such strings, and so are stdout and     *)
(* stderr (one string per printed line).                                   *)
(***************************************************************************)
EXTENDS Integers, Sequences, FiniteSets, TLC

VARIABLES
    sys_argv,       \* sys.argv, program name first
    max_workers,    \* ThreadPoolExecutor()'s pool size on this platform
    pc,             \* main()'s position
    idx,            \* position of the running for loop (lines 63 and 76)
    futures,        \* the work items submitted to the executor, in submit order
    extra_futures,  \* the list of (cal_id, future) pairs of line 62
    exc,            \* TRUE when an exception is propagating out of main()
    stdout,         \* lines written to sys.stdout
    stderr,         \* lines written to sys.stderr
    exit_status,    \* the process's exit status, -1 while it runs
    nonzero         \* TRUE once a subprocess has exited with a non-zero code

vars == <<sys_argv, max_workers, pc, idx, futures, extra_futures, exc,
          stdout, stderr, exit_status, nonzero>>

(***************************************************************************)
(* Bounds of the model.                                                    *)
(***************************************************************************)
MaxExtras == 2
MaxWorkers == 2

MaxTasks == 2 + MaxExtras

(***************************************************************************)
(* Strings of the program text.                                            *)
(***************************************************************************)
Colon == ":"
Prog == <<"fetch_events.py">>
UsageLine == <<"Usage: fetch_events.py <personal_account> <work_account> <from> <to> [extra_calendar_ids...]">>
PersonalMarker == <<"===PERSONAL===">>
WorkMarker == <<"===WORK===">>
ExtraMarker(cal_id) == <<"===EXTRA:">> \o cal_id \o <<"===">>
WarningLine(extra) ==
    <<"Warning: skipping invalid extra calendar '">> \o extra
        \o <<"' (expected account:calendarId)">>
\* What the interpreter writes to stderr for an exception that leaves main().
TracebackLine == <<"Traceback (most recent call last):">>

MinArgc == 5

(***************************************************************************)
(* The command lines the model starts from.                                *)
(***************************************************************************)
\* An account is an email or an alias (lines 8-9).  The personal account is
\* given as the alias "work", which is also a key of account_map, so that the
\* model tells one lookup in account_map from two.
PersonalAccounts == { <<"work">> }
WorkAccounts == { <<"work@company.com">> }
TimeFrom == <<"2026-02-18">>
TimeTo == <<"2026-02-22">>
Specifiers ==
    { <<"room">>,
      <<"personal", Colon, "cal", Colon, "x">>,
      <<"work", Colon, "cal">>,
      <<"foo", Colon>> }

SeqsUpTo(S, n) == UNION { [1..k -> S] : k \in 0..n }

FullArgvs ==
    { <<Prog, p, w, TimeFrom, TimeTo>> \o e :
        p \in PersonalAccounts, w \in WorkAccounts, e \in SeqsUpTo(Specifiers, MaxExtras) }

\* Every full command line and every command line cut short after any argument.
Argvs == UNION { { SubSeq(a, 1, n) : n \in 1..Len(a) } : a \in FullArgvs }

\* What the external tool may write to its stdout: nothing, or a text that
\* names the process that wrote it.
ProcText == <<"out1", "out2", "out3", "out4", "out5", "out6">>
ProcOutputs(i) == { <<>>, <<ProcText[i]>> }
ExitCodes == {0, 1}

(***************************************************************************)
(* Pure functions of the program.                                          *)
(***************************************************************************)
\* ":" in extra
HasColon(extra) == \E k \in 1..Len(extra) : extra[k] = Colon

FirstColon(extra) ==
    CHOOSE k \in 1..Len(extra) :
        extra[k] = Colon /\ \A j \in 1..(k - 1) : extra[j] # Colon

LastColon(extra) ==
    CHOOSE k \in 1..Len(extra) :
        extra[k] = Colon /\ \A j \in (k + 1)..Len(extra) : extra[j] # Colon

\* extra.rsplit(":", 1): the split a wrong direction would give
RSplitColon(extra) ==
    <<SubSeq(extra, 1, LastColon(extra) - 1),
      SubSeq(extra, LastColon(extra) + 1, Len(extra))>>

\* extra.split(":", 1)
SplitColon(extra) ==
    <<SubSeq(extra, 1, FirstColon(extra) - 1),
      SubSeq(extra, FirstColon(extra) + 1, Len(extra))>>

\* account_map = {"personal": account_personal, "work": account_work}
account_map(argv) ==
    [k \in { <<"personal">>, <<"work">> } |->
        IF k = <<"personal">> THEN argv[2] ELSE argv[3]]

\* a lookup that follows aliases until none applies
ResolveChained(argv, acct_key) ==
    LET once == IF acct_key \in DOMAIN account_map(argv)
                THEN account_map(argv)[acct_key] ELSE acct_key
    IN  IF once \in DOMAIN account_map(argv) THEN account_map(argv)[once] ELSE once

\* account_map.get(acct_key, acct_key)
Resolve(argv, acct_key) ==
    IF acct_key \in DOMAIN account_map(argv)
    THEN account_map(argv)[acct_key]
    ELSE acct_key

\* the command with the calendar ID put last
BuildCmdIdLast(account, time_from, time_to, calendar_id) ==
    << <<"gog">>, <<"calendar">>, <<"events">> >>
        \o << <<"--account">>, account, <<"--from">>, time_from,
              <<"--to">>, time_to, <<"--max">>, <<"50">>, <<"--json">> >>
        \o (IF calendar_id # <<>> THEN <<calendar_id>> ELSE <<>>)

\* cmd of fetch_events
BuildCmd(account, time_from, time_to, calendar_id) ==
    << <<"gog">>, <<"calendar">>, <<"events">> >>
        \o (IF calendar_id # <<>> THEN <<calendar_id>> ELSE <<>>)
        \o << <<"--account">>, account, <<"--from">>, time_from,
              <<"--to">>, time_to, <<"--max">>, <<"50">>, <<"--json">> >>

(***************************************************************************)
(* State after the interpreter has started the script.                     *)
(***************************************************************************)
Init ==
    /\ sys_argv \in Argvs
    /\ max_workers \in 1..MaxWorkers
    /\ pc = "check_args"
    /\ idx = 0
    /\ futures = <<>>
    /\ extra_futures = <<>>
    /\ exc = FALSE
    /\ stdout = <<>>
    /\ stderr = <<>>
    /\ exit_status = -1
    /\ nonzero = FALSE

extra_calendars == SubSeq(sys_argv, 6, Len(sys_argv))

\* A work item as executor.submit creates it.  origin is the index in
\* sys_argv of the argument the target comes from; runs counts the calls of
\* subprocess.run made for it; cmd is the command line of that call.
NewFuture(origin, account, calendar_id) ==
    [ origin |-> origin,
      account |-> account,
      time_from |-> sys_argv[4],
      time_to |-> sys_argv[5],
      calendar_id |-> calendar_id,
      state |-> "queued",
      cmd |-> <<>>,
      result |-> <<>>,
      runs |-> 0 ]

Finished(f) == f.state \in {"done", "raised"}

(***************************************************************************)
(* main(), one action per statement that touches the executor or a stream. *)
(***************************************************************************)
\* lines 42-47, with the usage text written to stdout instead
CheckArgsUsageToStdout ==
    /\ pc = "check_args"
    /\ IF Len(sys_argv) < MinArgc
       THEN /\ stdout' = Append(stdout, UsageLine)
            /\ exit_status' = 1
            /\ pc' = "exited"
       ELSE /\ pc' = "submit_personal"
            /\ UNCHANGED <<stdout, exit_status>>
    /\ UNCHANGED <<nonzero, sys_argv, max_workers, idx, futures, extra_futures, exc, stderr>>

\* lines 42-47: the usage check and sys.exit(1)
CheckArgs ==
    /\ pc = "check_args"
    /\ IF Len(sys_argv) < MinArgc
       THEN /\ stderr' = Append(stderr, UsageLine)
            /\ exit_status' = 1
            /\ pc' = "exited"
       ELSE /\ pc' = "submit_personal"
            /\ UNCHANGED <<stderr, exit_status>>
    /\ UNCHANGED <<nonzero, sys_argv, max_workers, idx, futures, extra_futures, exc, stdout>>

\* line 59
SubmitPersonal ==
    /\ pc = "submit_personal"
    /\ futures' = Append(futures, NewFuture(2, sys_argv[2], <<>>))
    /\ pc' = "submit_work"
    /\ UNCHANGED <<nonzero, sys_argv, max_workers, idx, extra_futures, exc, stdout, stderr,
                   exit_status>>

\* line 60, and the entry of the for loop of line 63
SubmitWork ==
    /\ pc = "submit_work"
    /\ futures' = Append(futures, NewFuture(3, sys_argv[3], <<>>))
    /\ idx' = 1
    /\ pc' = IF extra_calendars = <<>> THEN "marker_personal" ELSE "for_extras"
    /\ UNCHANGED <<nonzero, sys_argv, max_workers, extra_futures, exc, stdout, stderr,
                   exit_status>>

\* one iteration of lines 63-69 that leaves the loop at the first specifier
\* without a colon
ForExtraBreak ==
    /\ pc = "for_extras"
    /\ LET extra == extra_calendars[idx]
       IN  IF ~HasColon(extra)
           THEN /\ stderr' = Append(stderr, WarningLine(extra))
                /\ pc' = "marker_personal"
                /\ UNCHANGED <<futures, extra_futures>>
           ELSE LET acct_key == SplitColon(extra)[1]
                    cal_id == SplitColon(extra)[2]
                    account == Resolve(sys_argv, acct_key)
                IN  /\ futures' = Append(futures, NewFuture(5 + idx, account, cal_id))
                    /\ extra_futures' =
                           Append(extra_futures,
                                  [cal_id |-> cal_id, future |-> Len(futures) + 1])
                    /\ pc' = IF idx = Len(extra_calendars)
                             THEN "marker_personal" ELSE "for_extras"
                    /\ UNCHANGED stderr
    /\ idx' = idx + 1
    /\ UNCHANGED <<nonzero, sys_argv, max_workers, exc, stdout, exit_status>>

\* one iteration of lines 63-69 that also prints the section's marker
ForExtraPrinting ==
    /\ pc = "for_extras"
    /\ LET extra == extra_calendars[idx]
       IN  IF ~HasColon(extra)
           THEN /\ stderr' = Append(stderr, WarningLine(extra))
                /\ UNCHANGED <<futures, extra_futures, stdout>>
           ELSE LET acct_key == SplitColon(extra)[1]
                    cal_id == SplitColon(extra)[2]
                    account == Resolve(sys_argv, acct_key)
                IN  /\ futures' = Append(futures, NewFuture(5 + idx, account, cal_id))
                    /\ extra_futures' =
                           Append(extra_futures,
                                  [cal_id |-> cal_id, future |-> Len(futures) + 1])
                    /\ stdout' = Append(stdout, ExtraMarker(cal_id))
                    /\ UNCHANGED stderr
    /\ idx' = idx + 1
    /\ pc' = IF idx = Len(extra_calendars) THEN "marker_personal" ELSE "for_extras"
    /\ UNCHANGED <<nonzero, sys_argv, max_workers, exc, exit_status>>

\* one iteration of lines 63-69
ForExtra ==
    /\ pc = "for_extras"
    /\ LET extra == extra_calendars[idx]
       IN  IF ~HasColon(extra)
           THEN /\ stderr' = Append(stderr, WarningLine(extra))
                /\ UNCHANGED <<futures, extra_futures>>
           ELSE LET acct_key == SplitColon(extra)[1]
                    cal_id == SplitColon(extra)[2]
                    account == Resolve(sys_argv, acct_key)
                IN  /\ futures' = Append(futures, NewFuture(5 + idx, account, cal_id))
                    /\ extra_futures' =
                           Append(extra_futures,
                                  [cal_id |-> cal_id, future |-> Len(futures) + 1])
                    /\ UNCHANGED stderr
    /\ idx' = idx + 1
    /\ pc' = IF idx = Len(extra_calendars) THEN "marker_personal" ELSE "for_extras"
    /\ UNCHANGED <<nonzero, sys_argv, max_workers, exc, stdout, exit_status>>

\* print(future.result()): blocks until the future is finished, then prints
\* its result or re-raises its exception, which leaves the with block.
PrintResult(fi, next_pc) ==
    /\ Finished(futures[fi])
    /\ IF futures[fi].state = "done"
       THEN /\ stdout' = Append(stdout, futures[fi].result)
            /\ pc' = next_pc
            /\ UNCHANGED exc
       ELSE /\ exc' = TRUE
            /\ pc' = "executor_exit"
            /\ UNCHANGED stdout

\* line 71
MarkerPersonal ==
    /\ pc = "marker_personal"
    /\ stdout' = Append(stdout, PersonalMarker)
    /\ pc' = "result_personal"
    /\ UNCHANGED <<nonzero, sys_argv, max_workers, idx, futures, extra_futures, exc, stderr,
                   exit_status>>

\* line 72
ResultPersonal ==
    /\ pc = "result_personal"
    /\ PrintResult(1, "marker_work")
    /\ UNCHANGED <<nonzero, sys_argv, max_workers, idx, futures, extra_futures, stderr,
                   exit_status>>

\* line 73
MarkerWork ==
    /\ pc = "marker_work"
    /\ stdout' = Append(stdout, WorkMarker)
    /\ pc' = "result_work"
    /\ UNCHANGED <<nonzero, sys_argv, max_workers, idx, futures, extra_futures, exc, stderr,
                   exit_status>>

\* line 74 reading the wrong future
ResultWorkOfPersonal ==
    /\ pc = "result_work"
    /\ PrintResult(1, IF extra_futures = <<>> THEN "executor_exit" ELSE "marker_extra")
    /\ idx' = 1
    /\ UNCHANGED <<nonzero, sys_argv, max_workers, futures, extra_futures, stderr, exit_status>>

\* line 74, and the entry of the for loop of line 76
ResultWork ==
    /\ pc = "result_work"
    /\ PrintResult(2, IF extra_futures = <<>> THEN "executor_exit" ELSE "marker_extra")
    /\ idx' = 1
    /\ UNCHANGED <<nonzero, sys_argv, max_workers, futures, extra_futures, stderr, exit_status>>

\* line 77
MarkerExtra ==
    /\ pc = "marker_extra"
    /\ stdout' = Append(stdout, ExtraMarker(extra_futures[idx].cal_id))
    /\ pc' = "result_extra"
    /\ UNCHANGED <<nonzero, sys_argv, max_workers, idx, futures, extra_futures, exc, stderr,
                   exit_status>>

\* line 78, and the loop's next iteration or end
ResultExtra ==
    /\ pc = "result_extra"
    /\ PrintResult(extra_futures[idx].future,
                   IF idx = Len(extra_futures) THEN "executor_exit" ELSE "marker_extra")
    /\ idx' = idx + 1
    /\ UNCHANGED <<nonzero, sys_argv, max_workers, futures, extra_futures, stderr, exit_status>>

\* leaving the with block without waiting for the work items
ExecutorExitNoWait ==
    /\ pc = "executor_exit"
    /\ pc' = "exited"
    /\ exit_status' = IF exc THEN 1 ELSE 0
    /\ stderr' = IF exc THEN Append(stderr, TracebackLine) ELSE stderr
    /\ UNCHANGED <<nonzero, sys_argv, max_workers, idx, futures, extra_futures, exc, stdout>>

\* the end of the with block of line 58: shutdown(wait=True) joins the
\* workers, which first run every work item still queued; then main() returns
\* (status 0) or the exception reaches the interpreter (traceback, status 1)
ExecutorExit ==
    /\ pc = "executor_exit"
    /\ \A i \in 1..Len(futures) : Finished(futures[i])
    /\ pc' = "exited"
    /\ exit_status' = IF exc THEN 1 ELSE 0
    /\ stderr' = IF exc THEN Append(stderr, TracebackLine) ELSE stderr
    /\ UNCHANGED <<nonzero, sys_argv, max_workers, idx, futures, extra_futures, exc, stdout>>

MainStep ==
    \/ CheckArgs
    \/ SubmitPersonal
    \/ SubmitWork
    \/ ForExtra
    \/ MarkerPersonal
    \/ ResultPersonal
    \/ MarkerWork
    \/ ResultWork
    \/ MarkerExtra
    \/ ResultExtra
    \/ ExecutorExit

(***************************************************************************)
(* The executor's worker threads, each running fetch_events for one work   *)
(* item, and the subprocesses they wait for.                               *)
(***************************************************************************)
Busy == { j \in 1..Len(futures) : futures[j].state = "running" }
QueuedBefore(i) == { j \in 1..(i - 1) : futures[j].state = "queued" }

\* Work items leave the queue in submit order, one per free worker, but the
\* workers that took them reach subprocess.run in any order: item i can be
\* started when the items queued before it and the busy workers together
\* leave a worker for it.
CanStart(i) ==
    /\ i \in 1..Len(futures)
    /\ futures[i].state = "queued"
    /\ Cardinality(QueuedBefore(i)) + Cardinality(Busy) < max_workers

Cmd(f) == BuildCmd(f.account, f.time_from, f.time_to, f.calendar_id)

\* lines 27-37: the worker builds cmd and subprocess.run starts the process
LaunchProc(i) ==
    /\ CanStart(i)
    /\ futures' = [futures EXCEPT ![i].state = "running",
                                  ![i].cmd = Cmd(futures[i]),
                                  ![i].runs = @ + 1]
    /\ UNCHANGED <<nonzero, sys_argv, max_workers, pc, idx, extra_futures, exc, stdout,
                   stderr, exit_status>>

\* lines 27-37: subprocess.run raises instead of starting the process (no gog
\* on PATH, no permission, fork failure); the future keeps the exception
LaunchRaises(i) ==
    /\ CanStart(i)
    /\ futures' = [futures EXCEPT ![i].state = "raised",
                                  ![i].cmd = Cmd(futures[i]),
                                  ![i].runs = @ + 1]
    /\ UNCHANGED <<nonzero, sys_argv, max_workers, pc, idx, extra_futures, exc, stdout,
                   stderr, exit_status>>

\* the process exits and a worker that retries a non-zero exit queues the
\* item again
ProcExitRetry(i, code, out) ==
    /\ i \in 1..Len(futures)
    /\ futures[i].state = "running"
    /\ futures' = IF code # 0 /\ futures[i].runs < 2
                  THEN [futures EXCEPT ![i].state = "queued"]
                  ELSE [futures EXCEPT ![i].state = "done", ![i].result = out]
    /\ nonzero' = (nonzero \/ code # 0)
    /\ UNCHANGED <<sys_argv, max_workers, pc, idx, extra_futures, exc, stdout,
                   stderr, exit_status>>

\* lines 37-38: the process exits with any code, subprocess.run returns and
\* fetch_events returns result.stdout, which becomes the future's result
ProcExit(i, code, out) ==
    /\ i \in 1..Len(futures)
    /\ futures[i].state = "running"
    /\ futures' = [futures EXCEPT ![i].state = "done", ![i].result = out]
    /\ nonzero' = (nonzero \/ code # 0)
    /\ UNCHANGED <<sys_argv, max_workers, pc, idx, extra_futures, exc, stdout,
                   stderr, exit_status>>

\* line 37: the process exits having written bytes that text=True cannot
\* decode, and subprocess.run raises UnicodeDecodeError
ProcExitUndecodable(i, code) ==
    /\ i \in 1..Len(futures)
    /\ futures[i].state = "running"
    /\ futures' = [futures EXCEPT ![i].state = "raised"]
    /\ nonzero' = (nonzero \/ code # 0)
    /\ UNCHANGED <<sys_argv, max_workers, pc, idx, extra_futures, exc, stdout,
                   stderr, exit_status>>

WorkerStep == \E i \in 1..MaxTasks : LaunchProc(i) \/ LaunchRaises(i)

ProcStep ==
    \E i \in 1..MaxTasks, code \in ExitCodes :
        \/ \E out \in ProcOutputs(i) : ProcExit(i, code, out)
        \/ ProcExitUndecodable(i, code)

Next == MainStep \/ WorkerStep \/ ProcStep

Spec == Init /\ [][Next]_vars

\* Whether the run ends depends on how many targets there are and on the
\* pool size, not on the texts of the specifiers: the command lines whose
\* specifiers are one malformed text and one well-formed text.
FairInit ==
    /\ Init
    /\ \A k \in 6..Len(sys_argv) :
           sys_argv[k] \in { <<"room">>, <<"work", Colon, "cal">> }

\* The interpreter and the worker threads are scheduled fairly; nothing makes
\* a subprocess exit.
FairSpec ==
    FairInit /\ [][Next]_vars /\ WF_vars(MainStep) /\ WF_vars(WorkerStep)

(***************************************************************************)
(* What the command line asks for, stated without the program's helpers.   *)
(***************************************************************************)
RECURSIVE TextAfterFirstColon(_)
TextAfterFirstColon(str) ==
    IF str = <<>> THEN <<>>
    ELSE IF Head(str) = Colon THEN Tail(str)
    ELSE TextAfterFirstColon(Tail(str))

RECURSIVE TextBeforeFirstColon(_)
TextBeforeFirstColon(str) ==
    IF str = <<>> \/ Head(str) = Colon THEN <<>>
    ELSE <<Head(str)>> \o TextBeforeFirstColon(Tail(str))

ContainsColon(str) == Colon \in { str[k] : k \in 1..Len(str) }
LacksColon(str) == ~ContainsColon(str)

Positional == Len(sys_argv) - 1
ExtraArgs == IF Len(sys_argv) > 5 THEN SubSeq(sys_argv, 6, Len(sys_argv)) ELSE <<>>
ValidExtraArgs == SelectSeq(ExtraArgs, ContainsColon)
MalformedExtraArgs == SelectSeq(ExtraArgs, LacksColon)
\* the positions in sys_argv of the targets, in command-line order
IsTargetPosition(k) == k \in {2, 3} \/ (k >= 6 /\ ContainsColon(sys_argv[k]))
TargetPositions == SelectSeq([k \in 1..Len(sys_argv) |-> k], IsTargetPosition)

ExpectedMarkers ==
    <<PersonalMarker, WorkMarker>>
        \o [k \in 1..Len(ValidExtraArgs) |->
                <<"===EXTRA:">> \o TextAfterFirstColon(ValidExtraArgs[k]) \o <<"===">>]

IsMarker(line) ==
    line # <<>> /\ line[1] \in {"===PERSONAL===", "===WORK===", "===EXTRA:"}
IsWarning(line) ==
    line # <<>> /\ line[1] = "Warning: skipping invalid extra calendar '"
Markers(out) == SelectSeq(out, IsMarker)
Warnings(out) == SelectSeq(out, IsWarning)
Exited == pc = "exited"
Submitting == pc \in {"check_args", "submit_personal", "submit_work", "for_extras"}

(***************************************************************************)
(* C1: when the run is over, stdout holds exactly 2 + (N - M) section       *)
(* markers: PERSONAL, WORK, then one EXTRA marker per specifier with a     *)
(* colon, in command-line order, whatever order the tasks completed in.    *)
(***************************************************************************)
C1_MarkersInFixedOrder ==
    (Exited /\ Positional >= 4) => Markers(stdout) = ExpectedMarkers

NoCallRaised == \A k \in 1..Len(futures) : futures[k].state # "raised"

\* The markers are as C1 says in every run in which no call of
\* subprocess.run raised.
C1_HoldsUnlessRaised ==
    (Exited /\ Positional >= 4 /\ NoCallRaised) => Markers(stdout) = ExpectedMarkers

(***************************************************************************)
(* C2: a failing tool invocation (non-zero exit, an exception raised by    *)
(* the launch, empty or undecodable stdout) is not told from success: each *)
(* target's section is printed, stderr holds warnings only and the exit    *)
(* status is 0.                                                            *)
(***************************************************************************)
C2_FailuresNotDistinguished ==
    (Exited /\ Positional >= 4) =>
        /\ exit_status = 0
        /\ stderr = Warnings(stderr)
        /\ Len(stdout) = 2 * Len(futures)
        /\ \A k \in 1..Len(futures) : stdout[2 * k] = futures[k].result

\* Non-zero exit codes and empty outputs are treated as C2 says: the run
\* differs only where a call of subprocess.run raised.
C2_HoldsUnlessRaised ==
    (Exited /\ Positional >= 4 /\ NoCallRaised) =>
        /\ exit_status = 0
        /\ stderr = Warnings(stderr)
        /\ Len(stdout) = 2 * Len(futures)
        /\ \A k \in 1..Len(futures) : stdout[2 * k] = futures[k].result

(***************************************************************************)
(* C3: with fewer than 4 positional arguments nothing is ever submitted,   *)
(* launched or written to stdout, and the run ends with status 1 and the   *)
(* usage line, and nothing else, on stderr.                                *)
(***************************************************************************)
C3_UsageError ==
    Positional < 4 =>
        /\ futures = <<>>
        /\ stdout = <<>>
        /\ pc \in {"check_args", "exited"}
        /\ Exited => (exit_status = 1 /\ stderr = <<UsageLine>>)
        /\ ~Exited => (exit_status = -1 /\ stderr = <<>>)

C3_Witness == Positional = 3 /\ Exited /\ exit_status = 1

(***************************************************************************)
(* C4: once the specifiers have been read, stderr holds one warning per    *)
(* specifier without a colon, in order, and stdout never holds one; the    *)
(* work items are exactly personal, work and the specifiers with a colon,  *)
(* wherever the malformed ones stand; and the exit status is decided by    *)
(* the tasks alone.                                                        *)
(***************************************************************************)
C4_MalformedSkipped ==
    /\ Warnings(stdout) = <<>>
    /\ (Positional >= 4 /\ ~Submitting) =>
        /\ Warnings(stderr) =
               [k \in 1..Len(MalformedExtraArgs) |-> WarningLine(MalformedExtraArgs[k])]
        /\ [k \in 1..Len(futures) |-> futures[k].origin] = TargetPositions
    /\ (Positional >= 4 /\ Exited) =>
        exit_status =
            IF \E k \in 1..Len(futures) : futures[k].state = "raised" THEN 1 ELSE 0

C4_Witness ==
    /\ Exited
    /\ Len(sys_argv) = 7
    /\ LacksColon(sys_argv[6])
    /\ ContainsColon(sys_argv[7])
    /\ Len(futures) = 3
    /\ Len(stdout) = 6
    /\ exit_status = 0
    /\ stderr = <<WarningLine(sys_argv[6])>>

(***************************************************************************)
(* C5: every text printed under a section marker is the stdout captured    *)
(* from the process run for that section's own target, whatever the other  *)
(* processes did.                                                          *)
(***************************************************************************)
C5_SectionHoldsOwnOutput ==
    \A n \in 1..Len(stdout) :
        LET k == (n + 1) \div 2
        IN  IF n % 2 = 1
            THEN stdout[n] = ExpectedMarkers[k]
            ELSE /\ futures[k].state = "done"
                 /\ futures[k].origin = TargetPositions[k]
                 /\ stdout[n] = futures[k].result
                 /\ stdout[n] \in ProcOutputs(k)

C5_Witness ==
    /\ Exited
    /\ nonzero
    /\ Len(futures) = 4
    /\ Len(stdout) = 8
    /\ stdout[2] = <<>>
    /\ stdout[4] = <<ProcText[2]>>
    /\ stdout[6] = <<>>
    /\ stdout[8] = <<ProcText[4]>>

(***************************************************************************)
(* C6: the calendar ID of a specifier's target is the text after its first *)
(* colon, and its account is the personal argument for the prefix          *)
(* "personal", the work argument for the prefix "work", and the prefix     *)
(* itself otherwise, looked up once.                                       *)
(***************************************************************************)
C6_AliasResolution ==
    \A k \in 3..Len(futures) :
        LET extra == sys_argv[futures[k].origin]
            prefix == TextBeforeFirstColon(extra)
        IN  /\ ContainsColon(extra)
            /\ futures[k].calendar_id = TextAfterFirstColon(extra)
            /\ futures[k].account =
                   IF prefix = <<"personal">> THEN sys_argv[2]
                   ELSE IF prefix = <<"work">> THEN sys_argv[3]
                   ELSE prefix
            /\ extra_futures[k - 2] = [cal_id |-> futures[k].calendar_id, future |-> k]

C6_Witness ==
    /\ Len(futures) = 4
    /\ sys_argv[2] = <<"work">>
    /\ sys_argv[6] = <<"personal", Colon, "cal", Colon, "x">>
    /\ futures[3].account = <<"work">>
    /\ futures[3].calendar_id = <<"cal", Colon, "x">>
    /\ sys_argv[7] = <<"foo", Colon>>
    /\ futures[4].account = <<"foo">>
    /\ futures[4].calendar_id = <<>>

(***************************************************************************)
(* C7: the command of every call of subprocess.run is                      *)
(* gog calendar events [calendarId] --account A --from F --to T --max 50   *)
(* --json, with the calendar ID left out when it is empty and otherwise    *)
(* standing once, right after "events" and before "--account".             *)
(***************************************************************************)
FlagsOf(f) ==
    << <<"--account">>, f.account, <<"--from">>, sys_argv[4],
       <<"--to">>, sys_argv[5], <<"--max">>, <<"50">>, <<"--json">> >>

C7_CommandShape ==
    \A k \in 1..Len(futures) :
        futures[k].runs > 0 =>
            LET cmd == futures[k].cmd
                id == futures[k].calendar_id
            IN  /\ SubSeq(cmd, 1, 3) = << <<"gog">>, <<"calendar">>, <<"events">> >>
                /\ id = <<>> =>
                       /\ Len(cmd) = 12
                       /\ SubSeq(cmd, 4, 12) = FlagsOf(futures[k])
                /\ id # <<>> =>
                       /\ Len(cmd) = 13
                       /\ cmd[4] = id
                       /\ SubSeq(cmd, 5, 13) = FlagsOf(futures[k])

C7_Witness ==
    /\ Len(futures) = 4
    /\ \A k \in 1..4 : futures[k].runs = 1
    /\ futures[3].calendar_id = <<"cal", Colon, "x">>
    /\ futures[3].cmd[4] = <<"cal", Colon, "x">>
    /\ futures[4].calendar_id = <<>>
    /\ futures[4].cmd[4] = <<"--account">>

(***************************************************************************)
(* C8: the run ends exactly when every launched subprocess ends: it never  *)
(* ends while a subprocess is running, in whichever slot, and under fair   *)
(* scheduling it ends if from some point on no subprocess is running.      *)
(***************************************************************************)
C8_EndsIffProcessesEnd ==
    /\ [](Exited => Busy = {})
    /\ (<>[](Busy = {})) => <>Exited

C8_Witness ==
    /\ pc = "executor_exit"
    /\ exc
    /\ futures[1].state = "raised"
    /\ Len(futures) = 4
    /\ futures[4].state = "running"

(***************************************************************************)
(* C9: nothing is printed and no result is awaited before every target of  *)
(* the command line has been submitted.                                    *)
(***************************************************************************)
C9_AllSubmittedBeforeOutput ==
    Positional >= 4 =>
        /\ stdout # <<>> => ~Submitting
        /\ ~Submitting => Len(futures) = 2 + Len(ValidExtraArgs)

\* the orchestrator waits for the personal result, which is still being
\* produced, while the last extra's task has already completed
C9_Witness ==
    /\ pc = "result_personal"
    /\ stdout = <<PersonalMarker>>
    /\ Len(futures) = 4
    /\ futures[1].state = "running"
    /\ futures[4].state = "done"

(***************************************************************************)
(* C10: each target is submitted once and subprocess.run is called at most *)
(* once for it, so at most 2 + (N - M) launches are made; when the process *)
(* exits every target has been submitted and launched exactly once.        *)
(***************************************************************************)
C10_NoRetry ==
    Positional >= 4 =>
        /\ Len(futures) <= 2 + Len(ValidExtraArgs)
        /\ \A k \in 1..Len(futures) :
               /\ futures[k].origin = TargetPositions[k]
               /\ futures[k].runs <= 1
               /\ futures[k].runs = 0 <=> futures[k].state = "queued"
        /\ Exited =>
               /\ Len(futures) = 2 + Len(ValidExtraArgs)
               /\ \A k \in 1..Len(futures) : futures[k].runs = 1

C10_Witness ==
    /\ Exited
    /\ exc
    /\ Len(sys_argv) = 7
    /\ sys_argv[6] = sys_argv[7]
    /\ Len(futures) = 4
    /\ futures[1].state = "raised"
    /\ nonzero

====
